---- MODULE Spec2Model ----
(***************************************************************************)
(* Model of the apply command of the integration toolkit                   *)
(* (internal/cmd/integrations/apply.go): the scaffold folder is walked one *)
(* resource kind after the other, every resource file is probed remotely   *)
(* and created when absent, and the integration found in src is created,   *)
(* given its test cases and published.                                     *)
(*                                                                         *)
(* Strings and byte slices are sequences of one-character strings, so that *)
(* the string functions of the code (Ext, TrimSuffix, Split, ReplaceAll,   *)
(* Base, the regular expressions) are computed, not assumed.               *)
(***************************************************************************)
EXTENDS Integers, Sequences, FiniteSets, TLC

VARIABLES
    scaffold,       \* the scaffold folder: a set of leaves (files, empty folders)
    flags,          \* the command's flags
    remote,         \* the resources that exist remotely: a set of <<kind, id>>
    pc,             \* where the command is: Args, RunE's start, a stage, the end
    pos,            \* how many entries of the stage's folder walk are behind
    calls,          \* the remote calls issued by the current run, in order
    err,            \* the error RunE returns (NoErr: nil)
    artifact,       \* the result artifacts written by the current run
    applied,        \* the resources that earlier runs on this folder created
    remoteAtStart,  \* remote, as it was when the current run started
    failing         \* the resources <<kind, id>> whose lookup fails

vars ==
    <<scaffold, flags, remote, pc, pos, calls, err, artifact, applied, remoteAtStart,
      failing>>

----------------------------------------------------------------------------
(* Bounds of the model *)

\* a scaffold folder holds at most MaxLeaves leaves (files and empty folders)
MaxLeaves == 2

\* a code file of the inlining runs holds at most MaxText characters
MaxText == 3

----------------------------------------------------------------------------
(* Strings *)

Digits == {"0", "1", "2", "3", "4", "5", "6", "7", "8", "9"}

\* strings.HasSuffix
HasSuffix(s, p) == Len(s) >= Len(p) /\ SubSeq(s, Len(s) - Len(p) + 1, Len(s)) = p

\* s without its first n characters
Drop(s, n) == SubSeq(s, n + 1, Len(s))

\* strings.Contains
Contains(s, p) == \E i \in 0..(Len(s) - Len(p)) : SubSeq(s, i + 1, i + Len(p)) = p

\* strings.Index: the start of the first occurrence of p in s, 0 when there is none
Index(s, p) ==
    IF Contains(s, p)
    THEN 1 + CHOOSE i \in 0..(Len(s) - Len(p)) :
                 /\ SubSeq(s, i + 1, i + Len(p)) = p
                 /\ \A j \in 0..(i - 1) : SubSeq(s, j + 1, j + Len(p)) # p
    ELSE 0

\* strings.TrimSuffix
TrimSuffix(s, p) == IF HasSuffix(s, p) THEN SubSeq(s, 1, Len(s) - Len(p)) ELSE s

RECURSIVE Split(_, _)
\* strings.Split, for a separator that is not empty
Split(s, sep) ==
    IF Index(s, sep) = 0
    THEN <<s>>
    ELSE <<SubSeq(s, 1, Index(s, sep) - 1)>>
             \o Split(Drop(s, Index(s, sep) + Len(sep) - 1), sep)

RECURSIVE ReplaceAll(_, _, _)
\* strings.ReplaceAll, for an old string that is not empty
ReplaceAll(s, old, new) ==
    IF Index(s, old) = 0
    THEN s
    ELSE SubSeq(s, 1, Index(s, old) - 1) \o new
             \o ReplaceAll(Drop(s, Index(s, old) + Len(old) - 1), old, new)

\* the position of the last c in s, 0 when there is none
LastIndex(s, c) ==
    IF \E i \in 1..Len(s) : s[i] = c
    THEN CHOOSE i \in 1..Len(s) : s[i] = c /\ \A j \in (i + 1)..Len(s) : s[j] # c
    ELSE 0

\* filepath.Ext of a base name: the suffix that starts at the last dot
Ext(s) == IF LastIndex(s, ".") = 0 THEN <<>> ELSE SubSeq(s, LastIndex(s, "."), Len(s))

RECURSIVE TrimSlashes(_)
\* s without its trailing slashes
TrimSlashes(s) ==
    IF s # <<>> /\ s[Len(s)] = "/" THEN TrimSlashes(SubSeq(s, 1, Len(s) - 1)) ELSE s

\* filepath.Base: the last element of a path; "." for the empty path and "/" for
\* a path of slashes only
Base(s) ==
    IF s = <<>> THEN <<".">>
    ELSE IF TrimSlashes(s) = <<>> THEN <<"/">>
    ELSE Drop(TrimSlashes(s), LastIndex(TrimSlashes(s), "/"))

\* the characters of file names, in the order of their byte values
Alphabet ==
    <<".", "0", "1", "2", "3", "4", "5", "6", "7", "8", "9", "_",
      "a", "b", "c", "d", "e", "f", "g", "h", "i", "j", "k", "l", "m",
      "n", "o", "p", "q", "r", "s", "t", "u", "v", "w", "x", "y", "z">>

Code(c) == CHOOSE i \in 1..Len(Alphabet) : Alphabet[i] = c

RECURSIVE Less(_, _)
\* a < b, as Go compares strings (byte by byte)
Less(a, b) ==
    IF b = <<>> THEN FALSE
    ELSE IF a = <<>> THEN TRUE
    ELSE IF Head(a) # Head(b) THEN Code(Head(a)) < Code(Head(b))
    ELSE Less(Tail(a), Tail(b))

----------------------------------------------------------------------------
(* File names and the naming parser *)

DotJson == <<".", "j", "s", "o", "n">>

\* rJSONFiles, the unanchored regular expression (\S*)\.json: a name matches
\* when .json occurs anywhere in it
MatchJSON(name) == Contains(name, DotJson)

\* prefix \d{1,2} . suffix, unanchored: one or two digits, any one character
MatchNumbered(name, prefix, suffix) ==
    \E i \in 0..Len(name) : \E d \in {1, 2} :
        /\ i + Len(prefix) + d + 1 + Len(suffix) <= Len(name)
        /\ SubSeq(name, i + 1, i + Len(prefix)) = prefix
        /\ \A k \in 1..d : name[i + Len(prefix) + k] \in Digits
        /\ SubSeq(name, i + Len(prefix) + d + 2,
                  i + Len(prefix) + d + 1 + Len(suffix)) = suffix

JavascriptPrefix == <<"j", "a", "v", "a", "s", "c", "r", "i", "p", "t", "_">>
DatatransformerPrefix ==
    <<"d", "a", "t", "a", "t", "r", "a", "n", "s", "f", "o", "r", "m", "e", "r", "_">>

\* rJavaScriptFiles: javascript_\d{1,2}.js
MatchJavaScript(name) == MatchNumbered(name, JavascriptPrefix, <<"j", "s">>)

\* rJsonnetFiles: datatransformer_\d{1,2}.jsonnet
MatchJsonnet(name) ==
    MatchNumbered(name, DatatransformerPrefix, <<"j", "s", "o", "n", "n", "e", "t">>)

getFilenameWithoutExtension(filname) == TrimSuffix(filname, Ext(filname))

\* utils.DefaultFileSplitter and utils.LegacyFileSplitter
DefaultFileSplitter == <<"_", "_">>
LegacyFileSplitter == <<"_">>

fileSplitter(useUnderscore) ==
    IF useUnderscore THEN LegacyFileSplitter ELSE DefaultFileSplitter

----------------------------------------------------------------------------
(* Byte slices that hold JSON *)

\* The content of a file or the body of a response: whether it parses as a JSON
\* object, the string fields of that object, and its text.
Bytes(valid, fields, text) == [valid |-> valid, fields |-> fields, text |-> text]

NoFields == [x \in {} |-> <<>>]
NoBytes == Bytes(FALSE, NoFields, <<>>)

\* a JSON object that holds nothing this program reads
Opaque(tag) == Bytes(TRUE, NoFields, <<tag>>)

\* fmt.Sprintf("%s", nil)
SprintfNil == <<"%", "!", "s", "(", "<", "n", "i", "l", ">", ")">>

\* the results of the functions that may fail: a value and an error
Result(value, error) == [value |-> value, error |-> error]

\* getVersion: errors are "json" (Unmarshal failed) and "version not found"
getVersion(respBody) ==
    IF ~respBody.valid THEN Result(<<>>, "json")
    ELSE IF "name" \in DOMAIN respBody.fields /\ respBody.fields["name"] = <<>>
    THEN Result(<<>>, "version not found")
    ELSE LET version == Base(IF "name" \in DOMAIN respBody.fields
                             THEN respBody.fields["name"]
                             ELSE SprintfNil)
         IN  IF version = <<>>
             THEN Result(<<>>, "version not found")
             ELSE Result(version, "")

\* getServiceAttachment: errors are "json" and "serviceAttachment not found"
getServiceAttachment(respBody) ==
    IF ~respBody.valid THEN Result(<<>>, "json")
    ELSE IF "serviceAttachment" \notin DOMAIN respBody.fields
            \/ respBody.fields["serviceAttachment"] = <<>>
    THEN Result(<<>>, "serviceAttachment not found")
    ELSE Result(respBody.fields["serviceAttachment"], "")

----------------------------------------------------------------------------
(* The scaffold folder *)

\* Stages, had RunE applied the connectors before the custom connectors
StagesConnectorsFirst ==
    <<"authconfigs", "endpoints", "zones", "connectors", "custom-connectors",
      "sfdcinstances", "sfdcchannels", "src">>

\* the sub-folders of the scaffold folder, one per resource kind, in the order
\* in which RunE applies them; src is the integration's
Stages ==
    <<"authconfigs", "endpoints", "zones", "custom-connectors", "connectors",
      "sfdcinstances", "sfdcchannels", "src">>

\* An entry below a kind's folder: the entry kind/name, or kind/sub/name when
\* sub is not empty. The entry with the empty name is the kind's folder itself:
\* an empty folder (isDir) or a plain file in the folder's place.
Leaf(kind, sub, name, isDir, content) ==
    [kind |-> kind, sub |-> sub, name |-> name, isDir |-> isDir, content |-> content]

File(kind, name, content) == Leaf(kind, <<>>, name, FALSE, content)

JavascriptFolder == <<"j", "a", "v", "a", "s", "c", "r", "i", "p", "t">>

NewLine == "\n"

\* the leaves a scaffold folder of the model is made of: the files of the
\* resource kinds, among them names that split into one, two and three
\* segments, a file of the zones folder that is no JSON file, a plain file in
\* the place of the endpoints folder, and the files of the integration
Candidates ==
    { File("authconfigs", <<"a">> \o DotJson, Opaque("a")),
      File("endpoints", <<"e">> \o DotJson,
           Bytes(TRUE, [serviceAttachment |-> <<"s">>], <<"e">>)),
      File("zones", <<"z", "1">> \o DotJson, Opaque("z")),
      File("zones", <<"r", ".", "m", "d">>, Opaque("r")),
      Leaf("endpoints", <<>>, <<>>, FALSE, Opaque("f")),
      File("custom-connectors", <<"c", "_", "_", "1">> \o DotJson, Opaque("k")),
      File("connectors", <<"c", "1">> \o DotJson, Opaque("c1")),
      File("connectors", <<"c", "2">> \o DotJson, Opaque("c2")),
      File("sfdcinstances", <<"i">> \o DotJson, Opaque("i")),
      File("sfdcchannels", <<"i", "_", "_", "h">> \o DotJson, Opaque("h")),
      File("sfdcchannels", <<"i", "_", "h">> \o DotJson, Opaque("g")),
      File("src", <<"n">> \o DotJson, Opaque("n")),
      File("src", <<"t">> \o DotJson, Opaque("t")),
      Leaf("src", JavascriptFolder, JavascriptPrefix \o <<"1", ".", "j", "s">>, FALSE,
           Bytes(FALSE, NoFields, <<"r", NewLine, "1">>)),
      File("overrides", <<"o", "v", "e", "r", "r", "i", "d", "e", "s">> \o DotJson,
           Opaque("o")) }

\* a kind's folder is one thing: empty, a plain file, or a folder with entries
WellFormed(tree) ==
    \A x \in tree : x.name = <<>> => \A y \in tree : y.kind = x.kind => y = x

Scaffolds == {tree \in SUBSET Candidates : Cardinality(tree) <= MaxLeaves /\ WellFormed(tree)}

\* IsFolder, had the stages not asked stat.IsDir()
IsFolderAnyEntry(tree, kind) == \E x \in tree : x.kind = kind

\* os.Stat(folder) succeeds and stat.IsDir()
IsFolder(tree, kind) ==
    \E x \in tree : x.kind = kind /\ (x.name = <<>> => x.isDir)

\* the base name of the kind's folder
FolderName(kind) ==
    CASE kind = "authconfigs" ->
             <<"a", "u", "t", "h", "c", "o", "n", "f", "i", "g", "s">>
      [] kind = "endpoints" ->
             <<"e", "n", "d", "p", "o", "i", "n", "t", "s">>
      [] kind = "zones" ->
             <<"z", "o", "n", "e", "s">>
      [] kind = "custom-connectors" ->
             <<"c", "u", "s", "t", "o", "m", "-", "c", "o", "n", "n", "e", "c", "t", "o", "r", "s">>
      [] kind = "connectors" ->
             <<"c", "o", "n", "n", "e", "c", "t", "o", "r", "s">>
      [] kind = "sfdcinstances" ->
             <<"s", "f", "d", "c", "i", "n", "s", "t", "a", "n", "c", "e", "s">>
      [] kind = "sfdcchannels" ->
             <<"s", "f", "d", "c", "c", "h", "a", "n", "n", "e", "l", "s">>
      [] kind = "src" ->
             <<"s", "r", "c">>

\* the name of the entry of the kind's folder that leads to x
TopName(x) == IF x.sub = <<>> THEN x.name ELSE x.sub

\* filepath.Walk reaches x before y: the entries of a folder are walked in the
\* order of their names, a sub-folder's entries right after the sub-folder
Before(x, y) ==
    IF TopName(x) # TopName(y) THEN Less(TopName(x), TopName(y)) ELSE Less(x.name, y.name)

RECURSIVE InOrder(_)
InOrder(S) ==
    IF S = {} THEN <<>>
    ELSE LET m == CHOOSE x \in S : \A y \in S \ {x} : Before(x, y)
         IN  <<m>> \o InOrder(S \ {m})

\* the entries of the kind's folder for which filepath.Walk calls the function
\* with !info.IsDir(), in the order of the walk; the walk of a plain file
\* calls it once, with the file itself
WalkFiles(tree, kind) ==
    IF \E x \in tree : x.kind = kind /\ x.name = <<>> /\ ~x.isDir
    THEN <<[(CHOOSE x \in tree : x.kind = kind /\ x.name = <<>>)
               EXCEPT !.name = FolderName(kind)]>>
    ELSE InOrder({x \in tree : x.kind = kind /\ ~x.isDir /\ x.name # <<>>})

WalkUnder(tree, kind, sub) ==
    InOrder({x \in tree : x.kind = kind /\ ~x.isDir /\ x.name # <<>> /\ x.sub = sub})

----------------------------------------------------------------------------
(* Errors and remote calls *)

\* an error: what failed (code), in which stage and at which file
Error(code, kind, file) == [code |-> code, kind |-> kind, file |-> file]

\* nil
NoErr == Error("", "", <<>>)

\* the code map of a body that was not passed to integrations.SetCode
NoCode == NoFields

\* The content passed to a remote call: the bytes of a file, the code map that
\* integrations.SetCode has put into them, and the bytes passed along with them
\* (the overrides of a version, the config variables of a publish call).
Body(bytes, codeMap, extra) == [bytes |-> bytes, code |-> codeMap, extra |-> extra]

NoBody == Body(NoBytes, NoCode, NoBytes)

\* A remote call: the operation, the stage and the file it was issued for, the
\* identifier of the resource it is about (key), the identifiers and the
\* content passed, whether it succeeded (for a probe: whether it found the
\* resource) and the body of the response.
Call(op, kind, file, key, args, body, ok, resp) ==
    [op |-> op, kind |-> kind, file |-> file, key |-> key, args |-> args,
     body |-> body, ok |-> ok, resp |-> resp]

\* what the environment does to the step of one file: nothing, fail the read
\* of the file, or fail the create call
Outcomes == {"ok", "noread", "nocreate"}

\* Visited, had a walk function that fails taken back what the run created
VisitedRollsBack(newCalls, newRemote, ret) ==
    [calls |-> newCalls, remote |-> IF ret # NoErr THEN {} ELSE newRemote, ret |-> ret]

\* the result of one call of a walk function: the remote calls it issued, the
\* remote resources after it and the error it returned to filepath.Walk
Visited(newCalls, newRemote, ret) == [calls |-> newCalls, remote |-> newRemote, ret |-> ret]

\* ReadAndCreate, had a create call that failed been issued once more
ReadAndCreateRetries(f, key, args, body, rem, o, probe, onFail) ==
    IF o = "noread"
    THEN Visited(probe, rem, Error("read", f.kind, f.name))
    ELSE IF o = "nocreate"
    THEN Visited(probe \o <<Call("create", f.kind, f.name, key, args,
                                  Body(body, NoCode, NoBytes), FALSE, NoBytes),
                             Call("create", f.kind, f.name, key, args,
                                  Body(body, NoCode, NoBytes), FALSE, NoBytes)>>,
                 rem, onFail)
    ELSE Visited(probe \o <<Call("create", f.kind, f.name, key, args,
                                  Body(body, NoCode, NoBytes), TRUE, NoBytes)>>,
                 rem \cup {<<f.kind, key>>}, NoErr)

\* The part the walk functions share: the resource was not found, so the file
\* is read and the create call issued; a failed create call returns onFail.
\* A resource that was created exists remotely under the identifier probed.
ReadAndCreate(f, key, args, body, rem, o, probe, onFail) ==
    IF o = "noread"
    THEN Visited(probe, rem, Error("read", f.kind, f.name))
    ELSE IF o = "nocreate"
    THEN Visited(probe \o <<Call("create", f.kind, f.name, key, args,
                                  Body(body, NoCode, NoBytes), FALSE, NoBytes)>>,
                 rem, onFail)
    ELSE Visited(probe \o <<Call("create", f.kind, f.name, key, args,
                                  Body(body, NoCode, NoBytes), TRUE, NoBytes)>>,
                 rem \cup {<<f.kind, key>>}, NoErr)

Probe(f, key, rem) ==
    Call("probe", f.kind, f.name, key, key, NoBody, <<f.kind, key>> \in rem, NoBytes)

RemoteErr(f) == Error("remote", f.kind, f.name)

\* VisitAuthConfig, had the auth config been created whatever the lookup
\* yielded
VisitAuthConfigAlwaysCreates(f, rem, o) ==
    LET key == <<getFilenameWithoutExtension(f.name)>>
    IN  IF ~MatchJSON(f.name) THEN Visited(<<>>, rem, NoErr)
        ELSE ReadAndCreate(f, key, <<>>, f.content, rem, o,
                           <<Probe(f, key, rem)>>, RemoteErr(f))

\* processAuthConfigs, the function passed to filepath.Walk
VisitAuthConfig(f, rem, o) ==
    LET key == <<getFilenameWithoutExtension(f.name)>>
    IN  IF ~MatchJSON(f.name) THEN Visited(<<>>, rem, NoErr)
        ELSE IF <<f.kind, key>> \in rem
        THEN Visited(<<Probe(f, key, rem)>>, rem, NoErr)
        ELSE ReadAndCreate(f, key, <<>>, f.content, rem, o,
                           <<Probe(f, key, rem)>>, RemoteErr(f))

\* VisitEndpoint, had the endpoint attachment been created without a probe
VisitEndpointUnprobed(f, rem, o) ==
    LET key == <<getFilenameWithoutExtension(f.name)>>
        sa == getServiceAttachment(f.content)
    IN  IF o # "noread" /\ sa.error # ""
        THEN Visited(<<>>, rem, Error(sa.error, f.kind, f.name))
        ELSE ReadAndCreate(f, key, key \o <<sa.value>>, NoBytes, rem, o,
                           <<>>, RemoteErr(f))

\* VisitEndpoint, had the endpoint been created whatever getServiceAttachment
\* returned
VisitEndpointUnchecked(f, rem, o) ==
    LET key == <<getFilenameWithoutExtension(f.name)>>
        sa == getServiceAttachment(f.content)
    IN  IF <<f.kind, key>> \in rem
        THEN Visited(<<Probe(f, key, rem)>>, rem, NoErr)
        ELSE ReadAndCreate(f, key, key \o <<sa.value>>, NoBytes, rem, o,
                           <<Probe(f, key, rem)>>, RemoteErr(f))

\* processEndpoints, the function passed to filepath.Walk
VisitEndpoint(f, rem, o) ==
    LET key == <<getFilenameWithoutExtension(f.name)>>
        sa == getServiceAttachment(f.content)
    IN  IF <<f.kind, key>> \in rem
        THEN Visited(<<Probe(f, key, rem)>>, rem, NoErr)
        ELSE IF o # "noread" /\ sa.error # ""
        THEN Visited(<<Probe(f, key, rem)>>, rem, Error(sa.error, f.kind, f.name))
        ELSE ReadAndCreate(f, key, key \o <<sa.value>>, NoBytes, rem, o,
                           <<Probe(f, key, rem)>>, RemoteErr(f))

\* VisitZone, had it taken a zone that exists for one that does not
VisitZoneInverted(f, rem, o) ==
    LET key == <<getFilenameWithoutExtension(f.name)>>
    IN  IF <<f.kind, key>> \notin rem
        THEN Visited(<<Probe(f, key, rem)>>, rem, NoErr)
        ELSE ReadAndCreate(f, key, key, f.content, rem, o,
                           <<Probe(f, key, rem)>>, RemoteErr(f))

\* VisitZone, had the zone been created without the bytes of its file
VisitZoneNoBytes(f, rem, o) ==
    LET key == <<getFilenameWithoutExtension(f.name)>>
    IN  IF <<f.kind, key>> \in rem
        THEN Visited(<<Probe(f, key, rem)>>, rem, NoErr)
        ELSE ReadAndCreate(f, key, key, NoBytes, rem, o,
                           <<Probe(f, key, rem)>>, RemoteErr(f))

\* processManagedZones, the function passed to filepath.Walk
VisitZone(f, rem, o) ==
    LET key == <<getFilenameWithoutExtension(f.name)>>
    IN  IF <<f.kind, key>> \in rem
        THEN Visited(<<Probe(f, key, rem)>>, rem, NoErr)
        ELSE ReadAndCreate(f, key, key, f.content, rem, o,
                           <<Probe(f, key, rem)>>, RemoteErr(f))

\* VisitConnector, had it created the connection whatever the probe found
VisitConnectorAlwaysCreates(f, rem, o) ==
    LET key == <<getFilenameWithoutExtension(f.name)>>
    IN  IF ~MatchJSON(f.name) THEN Visited(<<>>, rem, NoErr)
        ELSE ReadAndCreate(f, key, key, f.content, rem, o,
                           <<Probe(f, key, rem)>>, RemoteErr(f))

\* processConnectors, the function passed to filepath.Walk
VisitConnector(f, rem, o) ==
    LET key == <<getFilenameWithoutExtension(f.name)>>
    IN  IF ~MatchJSON(f.name) THEN Visited(<<>>, rem, NoErr)
        ELSE IF <<f.kind, key>> \in rem
        THEN Visited(<<Probe(f, key, rem)>>, rem, NoErr)
        ELSE ReadAndCreate(f, key, key, f.content, rem, o,
                           <<Probe(f, key, rem)>>, RemoteErr(f))

\* processCustomConnectors, the function passed to filepath.Walk: the file is
\* read before the probe
VisitCustomConnector(f, rem, o, useUnderscore) ==
    LET customConnectionDetails ==
            Split(TrimSuffix(f.name, Ext(f.name)), fileSplitter(useUnderscore))
        key == <<customConnectionDetails[1], customConnectionDetails[2]>>
    IN  IF ~MatchJSON(f.name) \/ Len(customConnectionDetails) # 2
        THEN Visited(<<>>, rem, NoErr)
        ELSE IF o = "noread"
        THEN Visited(<<>>, rem, Error("read", f.kind, f.name))
        ELSE IF <<f.kind, key>> \in rem
        THEN Visited(<<Probe(f, key, rem)>>, rem, NoErr)
        ELSE ReadAndCreate(f, key, key, f.content, rem, o,
                           <<Probe(f, key, rem)>>, RemoteErr(f))

\* processSfdcInstances, the function passed to filepath.Walk: a failed create
\* call returns nil
VisitSfdcInstance(f, rem, o) ==
    LET key == <<getFilenameWithoutExtension(f.name)>>
    IN  IF ~MatchJSON(f.name) THEN Visited(<<>>, rem, NoErr)
        ELSE IF <<f.kind, key>> \in rem
        THEN Visited(<<Probe(f, key, rem)>>, rem, NoErr)
        ELSE ReadAndCreate(f, key, <<>>, f.content, rem, o,
                           <<Probe(f, key, rem)>>, NoErr)

\* when file is split with _, the result must be 2
sfdcNamingConvention == 2

\* VisitSfdcChannel, had FindChannel been called with the segments of the
\* name in their order
VisitSfdcChannelInOrder(f, rem, o, useUnderscore) ==
    LET sfdcNames == Split(getFilenameWithoutExtension(f.name), fileSplitter(useUnderscore))
        key == <<sfdcNames[1], sfdcNames[2]>>
    IN  IF ~MatchJSON(f.name) \/ Len(sfdcNames) # 2
        THEN Visited(<<>>, rem, NoErr)
        ELSE IF <<f.kind, key>> \in rem
        THEN Visited(<<Probe(f, key, rem)>>, rem, NoErr)
        ELSE ReadAndCreate(f, key, <<<<>>>>, f.content, rem, o,
                           <<Probe(f, key, rem)>>, NoErr)

\* VisitSfdcChannel, had a name that does not follow the naming convention
\* been an error
VisitSfdcChannelStrict(f, rem, o, useUnderscore) ==
    LET sfdcNames == Split(getFilenameWithoutExtension(f.name), fileSplitter(useUnderscore))
        key == <<sfdcNames[2], sfdcNames[1]>>
    IN  IF ~MatchJSON(f.name) THEN Visited(<<>>, rem, NoErr)
        ELSE IF Len(sfdcNames) # 2
        THEN Visited(<<>>, rem, Error("name", f.kind, f.name))
        ELSE IF <<f.kind, key>> \in rem
        THEN Visited(<<Probe(f, key, rem)>>, rem, NoErr)
        ELSE ReadAndCreate(f, key, <<<<>>>>, f.content, rem, o,
                           <<Probe(f, key, rem)>>, NoErr)

\* processSfdcChannels, the function passed to filepath.Walk: FindChannel is
\* called with the second segment of the name first, and a failed create call
\* returns nil. The version passed to the create call is the one the failed
\* FindChannel returned: the empty string.
VisitSfdcChannel(f, rem, o, useUnderscore) ==
    LET sfdcNames == Split(getFilenameWithoutExtension(f.name), fileSplitter(useUnderscore))
        key == <<sfdcNames[2], sfdcNames[1]>>
    IN  IF ~MatchJSON(f.name) \/ Len(sfdcNames) # sfdcNamingConvention
        THEN Visited(<<>>, rem, NoErr)
        ELSE IF <<f.kind, key>> \in rem
        THEN Visited(<<Probe(f, key, rem)>>, rem, NoErr)
        ELSE ReadAndCreate(f, key, <<<<>>>>, f.content, rem, o,
                           <<Probe(f, key, rem)>>, NoErr)

\* the function that the stage of f's kind passes to filepath.Walk
Visit(f, rem, o, useUnderscore) ==
    CASE f.kind = "authconfigs" -> VisitAuthConfig(f, rem, o)
      [] f.kind = "endpoints" -> VisitEndpoint(f, rem, o)
      [] f.kind = "zones" -> VisitZone(f, rem, o)
      [] f.kind = "custom-connectors" -> VisitCustomConnector(f, rem, o, useUnderscore)
      [] f.kind = "connectors" -> VisitConnector(f, rem, o)
      [] f.kind = "sfdcinstances" -> VisitSfdcInstance(f, rem, o)
      [] f.kind = "sfdcchannels" -> VisitSfdcChannel(f, rem, o, useUnderscore)

\* what a stage returns when its walk ended with the error ret:
\* processCustomConnectors drops the error of its walk and returns nil
StageReturn(kind, ret) == IF kind = "custom-connectors" THEN NoErr ELSE ret

----------------------------------------------------------------------------
(* The integration: code folders, version, test cases, publish *)

\* Inline, had only the first newline been replaced
InlineFirst(text) ==
    IF Index(text, <<NewLine>>) = 0 THEN text
    ELSE SubSeq(text, 1, Index(text, <<NewLine>>) - 1) \o <<"\\", "n">>
             \o Drop(text, Index(text, <<NewLine>>))

\* strings.ReplaceAll(string(bytes), "\n", "\\n")
Inline(text) == ReplaceAll(text, <<NewLine>>, <<"\\", "n">>)

\* m[key] = value
MapPut(m, key, value) ==
    [k \in DOMAIN m \cup {key} |-> IF k = key THEN value ELSE m[k]]

\* the base names of the files that the walk of a folder finds to match
NamesMatching(files, pattern) ==
    LET Match(name) == CASE pattern = "json" -> MatchJSON(name)
                         [] pattern = "javascript" -> MatchJavaScript(name)
                         [] pattern = "jsonnet" -> MatchJsonnet(name)
        found == SelectSeq(files, LAMBDA f : Match(f.name))
    IN  [i \in 1..Len(found) |-> found[i].name]

\* utils.ReadFile(path.Join(folder, name)) of the folder kind/sub: the file of
\* that name right in the folder, which must exist and be readable
CanRead(tree, kind, sub, name, noread) ==
    \E x \in tree : /\ x.kind = kind /\ x.sub = sub /\ x.name = name /\ ~x.isDir
                    /\ x \notin noread

Content(tree, kind, sub, name) ==
    (CHOOSE x \in tree : x.kind = kind /\ x.sub = sub /\ x.name = name /\ ~x.isDir).content

\* one bucket of the code map: the files of names, read and inlined, under the
\* key that is the file's name without its extension and without prefix
RECURSIVE CodeBucket(_, _, _, _, _)
CodeBucket(tree, sub, prefix, names, noread) ==
    IF names = <<>> THEN Result(NoFields, "")
    ELSE IF ~CanRead(tree, "src", sub, Head(names), noread)
    THEN Result(NoFields, "read")
    ELSE LET rest == CodeBucket(tree, sub, prefix, Tail(names), noread)
         IN  IF rest.error # "" THEN rest
             ELSE Result(
                 MapPut(rest.value,
                        ReplaceAll(getFilenameWithoutExtension(Head(names)), prefix, <<>>),
                        Inline(Content(tree, "src", sub, Head(names)).text)),
                 "")

DatatransformerFolder == SubSeq(DatatransformerPrefix, 1, Len(DatatransformerPrefix) - 1)

\* later files overwrite earlier ones in a bucket, so the bucket is built from
\* the last name to the first
RECURSIVE Reverse(_)
Reverse(q) == IF q = <<>> THEN <<>> ELSE Reverse(Tail(q)) \o <<Head(q)>>

\* processCodeFolders: both buckets are always there
processCodeFolders(tree, noread) ==
    LET js == CodeBucket(tree, JavascriptFolder, JavascriptPrefix,
                  Reverse(NamesMatching(WalkUnder(tree, "src", JavascriptFolder),
                                        "javascript")), noread)
        jn == CodeBucket(tree, DatatransformerFolder, DatatransformerPrefix,
                  Reverse(NamesMatching(WalkUnder(tree, "src", DatatransformerFolder),
                                        "jsonnet")), noread)
    IN  IF js.error # "" THEN Result(NoFields, js.error)
        ELSE IF jn.error # "" THEN Result(NoFields, jn.error)
        ELSE Result([JavaScriptTask |-> js.value, JsonnetMapperTask |-> jn.value], "")

\* integrations.SetCode(integrationBytes, codeMap): the integration file's
\* bytes with the code map put into them
SetCode(integrationBytes, codeMap) == Body(integrationBytes, codeMap, NoBytes)

\* the result of processTestCases and processIntegration
Done(newCalls, ret) == [calls |-> newCalls, ret |-> ret]

RECURSIVE SubmitTestCases(_, _, _, _, _)
\* processTestCases, the loop over testCaseFiles
SubmitTestCases(tree, testCaseFiles, integrationName, version, o) ==
    IF testCaseFiles = <<>> THEN Done(<<>>, NoErr)
    ELSE LET testCaseFile == Head(testCaseFiles)
         IN  IF ~CanRead(tree, "src", <<>>, testCaseFile, o.noread)
             THEN Done(<<>>, Error("read", "src", testCaseFile))
             ELSE IF testCaseFile \in o.noTestCase
             THEN Done(<<Call("createTestCase", "src", testCaseFile,
                              <<integrationName>>, <<integrationName, version>>,
                              Body(Content(tree, "src", <<>>, testCaseFile), NoCode, NoBytes),
                              FALSE, NoBytes)>>,
                       Error("remote", "src", testCaseFile))
             ELSE LET rest == SubmitTestCases(tree, Tail(testCaseFiles),
                                              integrationName, version, o)
                  IN  Done(<<Call("createTestCase", "src", testCaseFile,
                                  <<integrationName>>, <<integrationName, version>>,
                                  Body(Content(tree, "src", <<>>, testCaseFile),
                                       NoCode, NoBytes),
                                  TRUE, NoBytes)>> \o rest.calls,
                           rest.ret)

\* processTestCases, had it returned nil after a test case that failed
processTestCasesSwallows(tree, integrationName, version, o) ==
    Done(SubmitTestCases(tree, NamesMatching(WalkFiles(tree, "src"), "json"),
                         integrationName, version, o).calls,
         NoErr)

\* processTestCases: the test case files are the files of the src folder (the
\* folder it is called with) whose names match rJSONFiles
processTestCases(tree, integrationName, version, o) ==
    SubmitTestCases(tree, NamesMatching(WalkFiles(tree, "src"), "json"),
                    integrationName, version, o)

OverridesName == <<"o", "v", "e", "r", "r", "i", "d", "e", "s">> \o DotJson
ConfigSuffix == <<"-", "c", "o", "n", "f", "i", "g">> \o DotJson

\* os.Stat(path.Join(folder, name)) succeeds
Exists(tree, kind, name) == \E x \in tree : x.kind = kind /\ x.sub = <<>> /\ x.name = name

\* the bytes of an optional file: nil when the file is not there
Optional(tree, kind, name) ==
    IF Exists(tree, kind, name) THEN Content(tree, kind, <<>>, name) ELSE NoBytes

\* the result of processIntegration: the remote calls, the error returned and
\* the result artifacts written
Published(newCalls, ret, written) == [calls |-> newCalls, ret |-> ret, written |-> written]

\* WriteResults, had the result artifact been written whether or not a pipeline
\* was given
WriteResultsAlways(fl, o, integrationFile, issued) ==
    IF o.noWrite
    THEN Published(issued, Error("write", "src", integrationFile), <<>>)
    ELSE Published(issued, NoErr, <<"SUCCEEDED">>)

\* processIntegration after the publish call succeeded, issued being the calls
\* so far: if pipeline != "" { err = apiclient.WriteResultsFile(...) }
WriteResults(fl, o, integrationFile, issued) ==
    IF fl.pipeline = ""
    THEN Published(issued, NoErr, <<>>)
    ELSE IF o.noWrite
    THEN Published(issued, Error("write", "src", integrationFile), <<>>)
    ELSE Published(issued, NoErr, <<"SUCCEEDED">>)

\* processIntegration, from the version's creation on
CreateAndPublish(tree, fl, o, integrationFile, body, overridesBytes) ==
    LET name == getFilenameWithoutExtension(integrationFile)
        create == Call("createVersion", "src", integrationFile, <<name>>, <<name>>,
                       [body EXCEPT !.extra = overridesBytes], ~o.noVersion,
                       IF o.noVersion THEN NoBytes ELSE o.resp)
        version == getVersion(o.resp)
        tests == processTestCases(tree, name, version.value, o)
        configVarsFile == name \o ConfigSuffix
        publish == Call("publish", "src", integrationFile, <<name>>, <<name, version.value>>,
                        Body(NoBytes, NoCode, Optional(tree, "config-variables", configVarsFile)),
                        ~o.noPublish, NoBytes)
    IN  IF o.noVersion
        THEN Published(<<create>>, Error("remote", "src", integrationFile), <<>>)
        ELSE IF version.error # ""
        THEN Published(<<create>>, Error(version.error, "src", integrationFile), <<>>)
        ELSE IF tests.ret # NoErr
        THEN Published(<<create>> \o tests.calls, tests.ret, <<>>)
        ELSE IF /\ Exists(tree, "config-variables", configVarsFile)
                /\ ~CanRead(tree, "config-variables", <<>>, configVarsFile, o.noread)
        THEN Published(<<create>> \o tests.calls,
                       Error("read", "config-variables", configVarsFile), <<>>)
        ELSE IF o.noPublish
        THEN Published(<<create>> \o tests.calls \o <<publish>>,
                       Error("remote", "src", integrationFile), <<>>)
        ELSE WriteResults(fl, o, integrationFile, <<create>> \o tests.calls \o <<publish>>)

\* NoIntegration, had the missing integration file been an error
NoIntegrationIsError == Published(<<>>, Error("not found", "src", <<>>), <<>>)

\* processIntegration when no integration file was found: a warning, and nil
NoIntegration == Published(<<>>, NoErr, <<>>)

\* processIntegration
processIntegration(tree, fl, o) ==
    LET integrationNames == NamesMatching(WalkFiles(tree, "src"), "json")
        codeMap == processCodeFolders(tree, o.noread)
        integrationBytes == Content(tree, "src", <<>>, integrationNames[1])
    IN  IF /\ Exists(tree, "overrides", OverridesName)
           /\ ~CanRead(tree, "overrides", <<>>, OverridesName, o.noread)
        THEN Published(<<>>, Error("read", "overrides", OverridesName), <<>>)
        ELSE IF integrationNames = <<>>
        THEN NoIntegration
        ELSE IF ~CanRead(tree, "src", <<>>, integrationNames[1], o.noread)
        THEN Published(<<>>, Error("read", "src", integrationNames[1]), <<>>)
        ELSE IF codeMap.error # ""
        THEN Published(<<>>, Error(codeMap.error, "src", integrationNames[1]), <<>>)
        ELSE IF Cardinality(DOMAIN codeMap.value) > 0 /\ o.noSetCode
        THEN Published(<<>>, Error("setcode", "src", integrationNames[1]), <<>>)
        ELSE CreateAndPublish(tree, fl, o, integrationNames[1],
                 IF Cardinality(DOMAIN codeMap.value) > 0
                 THEN SetCode(integrationBytes, codeMap.value)
                 ELSE Body(integrationBytes, NoCode, NoBytes),
                 Optional(tree, "overrides", OverridesName))

----------------------------------------------------------------------------
(* The apply run *)

\* the flags of the command that the run reads
Flags ==
    [skipAuthconfigs : BOOLEAN, skipConnectors : BOOLEAN, useUnderscore : BOOLEAN,
     folder : {"", "f"}, pipeline : {"", "p"}, release : {"", "r"},
     outputGCSPath : {"", "o"}]

\* the flags that have a scaffold folder read one way or another: a flag that
\* no entry of the folder is read under (a skip flag without the folder it
\* skips, the splitter without a folder of split names) is left unset
Switches(tree) ==
    {fl \in Flags :
        /\ fl.skipAuthconfigs => \E x \in tree : x.kind = "authconfigs"
        /\ fl.skipConnectors => \E x \in tree : x.kind \in {"custom-connectors", "connectors"}
        /\ fl.useUnderscore => \E x \in tree : x.kind \in {"custom-connectors", "sfdcchannels"}}

\* The flags a scaffold folder is applied with in the runs that get to it:
\* the folder alone, or the pipeline, the release and the output path alone;
\* the pipeline is left out where there is no src folder to publish from.
FlagsFor(tree) ==
    {fl \in Switches(tree) :
        \/ fl.folder # "" /\ fl.pipeline = "" /\ fl.release = "" /\ fl.outputGCSPath = ""
        \/ /\ fl.folder = "" /\ fl.pipeline # "" /\ fl.release # "" /\ fl.outputGCSPath # ""
           /\ \E x \in tree : x.kind = "src"}

\* the bodies integrations.CreateVersion may answer with: a name that ends in
\* the version, an empty name, no name, and bytes that are no JSON object
Responses ==
    { Bytes(TRUE, [name |-> <<"v", "/", "4", "2">>], <<>>),
      Bytes(TRUE, [name |-> <<>>], <<>>),
      Bytes(TRUE, NoFields, <<>>),
      NoBytes }

\* What the environment does to the integration stage. The stage returns at
\* the first failure, so the environment fails at most one thing: the read of
\* one file, SetCode, the version's creation, the creation of one test case,
\* the publish call or the writing of the result artifact. resp is the body of
\* the response to the version's creation.
Outcome(noread, fails, noTestCase, resp) ==
    [noread |-> noread,
     noSetCode |-> fails = "setcode",
     noVersion |-> fails = "version",
     resp |-> resp,
     noTestCase |-> noTestCase,
     noPublish |-> fails = "publish",
     noWrite |-> fails = "write"]

IntegrationOutcomes(tree) ==
    UNION {
        {Outcome({}, fails, {}, resp) :
            fails \in {"", "setcode", "version", "publish", "write"}}
        \cup {Outcome({x}, "", {}, resp) :
            x \in {y \in tree : y.kind \in {"src", "overrides", "config-variables"}}}
        \cup {Outcome({}, "", {x.name}, resp) : x \in {y \in tree : y.kind = "src"}}
        : resp \in Responses}

\* the resources the stages may probe for
ProbeKeys(tree) ==
    {<<c.kind, c.key>> :
        c \in UNION {{v.calls[i] : i \in 1..Len(v.calls)} :
                        v \in {Visit(f, {}, "ok", u) :
                                 f \in {x \in tree : x.kind # "src" /\ x.kind # "overrides"
                                                     /\ ~x.isDir /\ x.name # <<>>},
                                 u \in BOOLEAN}}}

\* a point of the run: the stage and the number of files of its walk behind
Point(stage, behind) == [stage |-> stage, behind |-> behind]

\* Skipped, had skipConnectors left the custom connectors alone
SkippedConnectorsOnly(fl, stage) ==
    \/ stage = "authconfigs" /\ fl.skipAuthconfigs
    \/ stage = "connectors" /\ fl.skipConnectors

\* RunE's conditions on a stage: the skip flags
Skipped(fl, stage) ==
    \/ stage = "authconfigs" /\ fl.skipAuthconfigs
    \/ stage \in {"custom-connectors", "connectors"} /\ fl.skipConnectors

RECURSIVE Advance(_, _, _, _)
\* RunE from stage number n on, with behind files of that stage's walk done:
\* the next file a walk function is called with, or the integration stage.
\* A stage that is skipped, whose folder is no folder or whose walk is over
\* returns nil, and RunE goes on to the stage after it.
Advance(tree, fl, n, behind) ==
    IF Stages[n] = "src" THEN Point("src", 0)
    ELSE IF /\ ~Skipped(fl, Stages[n])
            /\ IsFolder(tree, Stages[n])
            /\ behind < Len(WalkFiles(tree, Stages[n]))
    THEN Point(Stages[n], behind)
    ELSE Advance(tree, fl, n + 1, 0)

\* AfterStage, had RunE gone on after a stage's error
AfterStageGoesOn(ret, next) == next

\* RunE after a stage: if err != nil { return err }
AfterStage(ret, next) == IF ret # NoErr THEN Point("done", 0) ELSE next

StageNumber(stage) == CHOOSE n \in 1..Len(Stages) : Stages[n] = stage

\* ArgsChecked, had the folder been accepted whatever came with it
ArgsCheckedFolderFirst(fl, o) ==
    IF o = "region" THEN Error("region", "", <<>>)
    ELSE IF fl.folder = "" /\ (fl.pipeline = "" \/ fl.release = "" \/ fl.outputGCSPath = "")
    THEN Error("atleast one of folder or pipeline, release and outputGCSPath", "", <<>>)
    ELSE IF o = "project" THEN Error("project", "", <<>>)
    ELSE NoErr

\* ApplyCmd.Args: the error it returns, o being what the environment does to
\* SetRegion and SetProjectID
ArgsChecked(fl, o) ==
    IF o = "region" THEN Error("region", "", <<>>)
    ELSE IF fl.folder = "" /\ (fl.pipeline = "" \/ fl.release = "" \/ fl.outputGCSPath = "")
    THEN Error("atleast one of folder or pipeline, release and outputGCSPath", "", <<>>)
    ELSE IF fl.folder # "" /\ (fl.pipeline # "" \/ fl.release # "" \/ fl.outputGCSPath # "")
    THEN Error("both folder and pipeline, release and outputGCSPath", "", <<>>)
    ELSE IF \/ fl.pipeline # "" /\ (fl.release = "" \/ fl.outputGCSPath = "")
            \/ fl.release # "" /\ (fl.pipeline = "" /\ fl.outputGCSPath = "")
            \/ fl.outputGCSPath # "" /\ (fl.pipeline = "" /\ fl.release = "")
    THEN Error("release, pipeline and outputGCSPath must be set", "", <<>>)
    ELSE IF o = "project" THEN Error("project", "", <<>>)
    ELSE NoErr

Init ==
    /\ scaffold \in Scaffolds
    /\ flags \in FlagsFor(scaffold)
    /\ remote \in SUBSET ProbeKeys(scaffold)
    /\ remoteAtStart = remote
    /\ pc = "args"
    /\ pos = 0
    /\ calls = <<>>
    /\ err = NoErr
    /\ artifact = <<>>
    /\ applied = {}
    /\ failing = {}

\* ApplyCmd.Args, which the command runs before RunE: RunE is not run when it
\* returns an error
Args ==
    /\ pc = "args"
    /\ \E o \in {"ok", "region", "project"} :
        /\ err' = ArgsChecked(flags, o)
        /\ pc' = IF ArgsChecked(flags, o) = NoErr THEN "start" ELSE "done"
    /\ UNCHANGED <<scaffold, flags, remote, pos, calls, artifact, applied, remoteAtStart, failing>>

\* RunE up to the first stage: the folder is fetched when a pipeline was given,
\* and must be a folder
RunEStart ==
    /\ pc = "start"
    /\ \E ok \in BOOLEAN :
        IF ok
        THEN /\ pc' = Advance(scaffold, flags, 1, 0).stage
             /\ pos' = Advance(scaffold, flags, 1, 0).behind
             /\ err' = NoErr
        ELSE /\ pc' = "done"
             /\ pos' = 0
             /\ err' = Error("folder", "", <<>>)
    /\ UNCHANGED <<scaffold, flags, remote, calls, artifact, applied, remoteAtStart, failing>>

\* one call of the function that the stage passes to filepath.Walk, and RunE
\* up to the next such call; a lookup that fails finds nothing
Step(stage) ==
    /\ pc = stage
    /\ \E o \in Outcomes :
        LET f == WalkFiles(scaffold, stage)[pos + 1]
            v == Visit(f, remote \ failing, o, flags.useUnderscore)
            ret == StageReturn(stage, v.ret)
            next == IF v.ret # NoErr
                    THEN Advance(scaffold, flags, StageNumber(stage) + 1, 0)
                    ELSE Advance(scaffold, flags, StageNumber(stage), pos + 1)
        IN  /\ calls' = calls \o v.calls
            /\ remote' = v.remote \cup (remote \cap failing)
            /\ err' = ret
            /\ pc' = AfterStage(ret, next).stage
            /\ pos' = AfterStage(ret, next).behind
    /\ UNCHANGED <<scaffold, flags, artifact, applied, remoteAtStart, failing>>

\* processAuthConfigs, unless skipAuthconfigs
ProcessAuthConfigs ==
    /\ ~flags.skipAuthconfigs
    /\ Step("authconfigs")

\* processEndpoints
ProcessEndpoints ==
    /\ IsFolder(scaffold, "endpoints")
    /\ Step("endpoints")

\* processManagedZones
ProcessManagedZones ==
    /\ IsFolder(scaffold, "zones")
    /\ Step("zones")

\* processCustomConnectors, unless skipConnectors
ProcessCustomConnectors ==
    /\ ~flags.skipConnectors
    /\ Step("custom-connectors")

\* processConnectors, unless skipConnectors
ProcessConnectors ==
    /\ ~flags.skipConnectors
    /\ Step("connectors")

\* processSfdcInstances
ProcessSfdcInstances ==
    /\ IsFolder(scaffold, "sfdcinstances")
    /\ Step("sfdcinstances")

\* processSfdcChannels
ProcessSfdcChannels ==
    /\ IsFolder(scaffold, "sfdcchannels")
    /\ Step("sfdcchannels")

\* the integration stage, and RunE's return
ProcessIntegration ==
    /\ pc = "src"
    /\ \E o \in IntegrationOutcomes(scaffold) :
        LET r == processIntegration(scaffold, flags, o)
        IN  /\ calls' = calls \o r.calls
            /\ err' = r.ret
            /\ artifact' = artifact \o r.written
            /\ remote' = remote \cup
                   {<<"src", r.calls[i].key>> :
                       i \in {j \in 1..Len(r.calls) :
                                 r.calls[j].op = "createVersion" /\ r.calls[j].ok}}
    /\ pc' = "done"
    /\ pos' = 0
    /\ UNCHANGED <<scaffold, flags, applied, remoteAtStart, failing>>

\* the same scaffold folder is applied again, with the same flags
Reapply ==
    /\ pc = "done"
    /\ applied' = applied \cup (remote \ remoteAtStart)
    /\ remoteAtStart' = remote
    /\ pc' = "args"
    /\ pos' = 0
    /\ calls' = <<>>
    /\ err' = NoErr
    /\ artifact' = <<>>
    /\ UNCHANGED <<scaffold, flags, remote, failing>>

Next ==
    \/ Args
    \/ RunEStart
    \/ ProcessAuthConfigs
    \/ ProcessEndpoints
    \/ ProcessManagedZones
    \/ ProcessCustomConnectors
    \/ ProcessConnectors
    \/ ProcessSfdcInstances
    \/ ProcessSfdcChannels
    \/ ProcessIntegration
    \/ Reapply

Spec == Init /\ [][Next]_vars

----------------------------------------------------------------------------
(* The command with flags of every shape *)

\* a scaffold folder of at most one leaf, applied with the folder, the
\* pipeline, the release and the output path each given or not
ArgsInit ==
    /\ scaffold \in {{}} \cup {{x} : x \in Candidates}
    /\ flags \in Switches(scaffold)
    /\ remote \in SUBSET ProbeKeys(scaffold)
    /\ remoteAtStart = remote
    /\ pc = "args"
    /\ pos = 0
    /\ calls = <<>>
    /\ err = NoErr
    /\ artifact = <<>>
    /\ applied = {}
    /\ failing = {}

ArgsSpec == ArgsInit /\ [][Next]_vars

----------------------------------------------------------------------------
(* The apply run over code files of every text *)

\* the characters of the code files: a letter, the newline, and the two
\* characters that a newline is inlined as
TextAlphabet == {"a", NewLine, "\\", "n"}

Texts == UNION {[1..n -> TextAlphabet] : n \in 0..MaxText}

JsonnetOne == DatatransformerPrefix \o <<"1", ".", "j", "s", "o", "n", "n", "e", "t">>

\* the scaffold folders that hold the integration file src/a.json and one
\* code file: src/javascript/javascript_1.js or
\* src/datatransformer/datatransformer_1.jsonnet; and the one that holds the
\* integration file src/n.json, walked after the datatransformer folder
CodeScaffolds ==
    {{File("src", <<"a">> \o DotJson, Opaque("a")),
      Leaf("src", JavascriptFolder, JavascriptPrefix \o <<"1", ".", "j", "s">>, FALSE,
           Bytes(FALSE, NoFields, t))} : t \in Texts}
    \cup
    {{File("src", <<"a">> \o DotJson, Opaque("a")),
      Leaf("src", DatatransformerFolder, JsonnetOne, FALSE,
           Bytes(FALSE, NoFields, t))} : t \in Texts}
    \cup
    {{File("src", <<"n">> \o DotJson, Opaque("n")),
      Leaf("src", DatatransformerFolder, JsonnetOne, FALSE,
           Bytes(FALSE, NoFields, <<>>))}}

InlineInit ==
    /\ scaffold \in CodeScaffolds
    /\ flags \in FlagsFor(scaffold)
    /\ remote = {}
    /\ remoteAtStart = remote
    /\ pc = "args"
    /\ pos = 0
    /\ calls = <<>>
    /\ err = NoErr
    /\ artifact = <<>>
    /\ applied = {}
    /\ failing = {}

InlineNext ==
    \/ Args
    \/ RunEStart
    \/ ProcessIntegration
    \/ Reapply

InlineSpec == InlineInit /\ [][InlineNext]_vars

----------------------------------------------------------------------------
(* The apply run over one file, with lookups that fail *)

\* endpoint files whose body has an empty serviceAttachment, has none, or is
\* no JSON object of strings
EndpointFiles ==
    { File("endpoints", <<"e">> \o DotJson, Bytes(TRUE, [serviceAttachment |-> <<>>], <<"e">>)),
      File("endpoints", <<"e">> \o DotJson, Bytes(TRUE, NoFields, <<"e">>)),
      File("endpoints", <<"e">> \o DotJson, Bytes(FALSE, NoFields, <<"e">>)) }

\* a scaffold folder of one file; each resource the run looks up exists
\* remotely or not, and its lookup fails or not
FileInit ==
    /\ scaffold \in {{x} : x \in Candidates \cup EndpointFiles}
    /\ flags \in FlagsFor(scaffold)
    /\ remote \in SUBSET ProbeKeys(scaffold)
    /\ remoteAtStart = remote
    /\ failing \in SUBSET ProbeKeys(scaffold)
    /\ pc = "args"
    /\ pos = 0
    /\ calls = <<>>
    /\ err = NoErr
    /\ artifact = <<>>
    /\ applied = {}

FileSpec == FileInit /\ [][Next]_vars

----------------------------------------------------------------------------
(* Properties of the apply run *)

\* the positions of the calls of the current run
Positions == 1..Len(calls)

\* the create calls of the seven kinds of resource files
IsCreate(c) == c.op = "create"

\* the order of the stages, as the specification of the command states it
ClaimedOrder ==
    <<"authconfigs", "endpoints", "zones", "custom-connectors", "connectors",
      "sfdcinstances", "sfdcchannels", "src">>

Rank(kind) == CHOOSE n \in 1..Len(ClaimedOrder) : ClaimedOrder[n] = kind

\* the stage an error comes from: the overrides and the config variables are
\* read by the integration stage
ErrStage(e) == IF e.kind \in {"overrides", "config-variables"} THEN "src" ELSE e.kind

\* C1: the remote calls of a run are issued in the order of the stages: auth
\* configs, endpoints, managed zones, custom connectors, connectors, SFDC
\* instances, SFDC channels, integration; no call of a stage comes after a call
\* of a later stage.
C1_StagesInOrder ==
    \A i, j \in Positions : i < j => Rank(calls[i].kind) <= Rank(calls[j].kind)

\* a run that has issued calls of two stages
C1_Witness ==
    \E i, j \in Positions : i < j /\ Rank(calls[i].kind) < Rank(calls[j].kind)

\* C2: when a stage returns an error the run is over and returns that error:
\* no call of a later stage was issued, and the error of a failed remote call
\* is the error of the last call of the run.
C2_FirstErrorEndsRun ==
    err # NoErr =>
        /\ pc = "done"
        /\ err.kind # "" => \A i \in Positions : Rank(calls[i].kind) <= Rank(ErrStage(err))
        /\ err.code = "remote" =>
               /\ calls # <<>>
               /\ ~calls[Len(calls)].ok
               /\ calls[Len(calls)].kind = err.kind
               /\ calls[Len(calls)].file = err.file

\* a run that a stage ended with the error of a remote call, over a folder that
\* holds a file of a later stage
C2_Witness ==
    /\ err.code = "remote"
    /\ \E x \in scaffold : x.name # <<>> /\ x.kind \in {ClaimedOrder[n] : n \in 1..8}
                           /\ Rank(x.kind) > Rank(err.kind)

\* C3: a failed create call is fatal for every kind: it is the last call of the
\* run, and the run ends with an error.
C3_CreateFailureIsFatal ==
    \A i \in Positions :
        (calls[i].op \in {"create", "createVersion", "createTestCase"} /\ ~calls[i].ok) =>
            /\ i = Len(calls)
            /\ pc = "done"
            /\ err # NoErr

\* C4: a file whose probe found the resource gets no create call and no error,
\* and the run goes on with the next file of the folder or, after the last
\* one, with a later stage.
C4_FoundNeverCreated ==
    \A i \in Positions :
        (calls[i].op = "probe" /\ calls[i].ok) =>
            /\ \A j \in Positions :
                   ~(IsCreate(calls[j]) /\ calls[j].kind = calls[i].kind
                     /\ calls[j].file = calls[i].file)
            /\ ~(err # NoErr /\ err.kind = calls[i].kind /\ err.file = calls[i].file)

C4_FoundGoesOn ==
    (/\ Len(calls') = Len(calls) + 1
     /\ calls'[Len(calls')].op = "probe"
     /\ calls'[Len(calls')].ok) =>
        /\ err' = NoErr
        /\ pc' # "done"
        /\ IF pos + 1 < Len(WalkFiles(scaffold, pc))
           THEN pc' = pc /\ pos' = pos + 1
           ELSE Rank(pc') > Rank(pc) /\ pos' = 0

C4_ExistingIsSkipped == [](C4_FoundNeverCreated) /\ [][C4_FoundGoesOn]_vars

\* a run in which the connector of c1.json was found and a later stage issued
\* a call
C4_Witness ==
    \E i, j \in Positions :
        /\ i < j
        /\ calls[i].op = "probe" /\ calls[i].ok /\ calls[i].kind = "connectors"
        /\ calls[i].file = <<"c", "1">> \o DotJson
        /\ Rank(calls[j].kind) > Rank("connectors")
        /\ \A k \in Positions : ~(IsCreate(calls[k]) /\ calls[k].kind = "connectors")

IsVersion(c) == c.op = "createVersion"
IsTestCase(c) == c.op = "createTestCase"
IsPublish(c) == c.op = "publish"

\* C6: the version moves absent -> created -> test cases attached -> published.
\* A test case is created after the version was, with the version id extracted
\* from the response; the publish call comes last, after the version and after
\* every test case was created; and when the version's creation, the
\* extraction of its id or the creation of a test case fails, nothing is
\* published.
C6_VersionLifecycle ==
    /\ \A i, j \in Positions : (IsVersion(calls[i]) /\ IsVersion(calls[j])) => i = j
    /\ \A j \in Positions :
           IsTestCase(calls[j]) =>
               \E i \in 1..(j - 1) :
                   /\ IsVersion(calls[i]) /\ calls[i].ok
                   /\ getVersion(calls[i].resp).error = ""
                   /\ calls[j].args = <<calls[i].args[1], getVersion(calls[i].resp).value>>
                   /\ \A k \in (i + 1)..(j - 1) : IsTestCase(calls[k]) /\ calls[k].ok
    /\ \A k \in Positions :
           IsPublish(calls[k]) =>
               /\ k = Len(calls)
               /\ \E i \in 1..(k - 1) :
                      /\ IsVersion(calls[i]) /\ calls[i].ok
                      /\ getVersion(calls[i].resp).error = ""
                      /\ calls[k].args = <<calls[i].args[1], getVersion(calls[i].resp).value>>
               /\ \A j \in Positions : IsTestCase(calls[j]) => (j < k /\ calls[j].ok)
    /\ (\E i \in Positions :
            \/ IsVersion(calls[i]) /\ (~calls[i].ok \/ getVersion(calls[i].resp).error # "")
            \/ IsTestCase(calls[i]) /\ ~calls[i].ok)
           => \A k \in Positions : ~IsPublish(calls[k])

\* a run that created the version and a test case and published
C6_Witness ==
    \E i, j, k \in Positions :
        /\ i < j /\ j < k
        /\ IsVersion(calls[i]) /\ IsTestCase(calls[j]) /\ IsPublish(calls[k]) /\ calls[k].ok

\* the number of calls of the current run of the operation op
Count(op) == Cardinality({i \in Positions : calls[i].op = op})

JavascriptOne == JavascriptPrefix \o <<"1", ".", "j", "s">>

\* the src folder holds the integration file n.json and javascript_1.js, and
\* nothing else
OneIntegrationOneScript ==
    /\ {x.name : x \in {y \in scaffold : y.kind = "src"}} = {<<"n">> \o DotJson, JavascriptOne}
    /\ \E x \in scaffold : x.kind = "src" /\ x.name = JavascriptOne /\ x.sub = JavascriptFolder
    /\ \E x \in scaffold : x.kind = "src" /\ x.name = <<"n">> \o DotJson /\ x.sub = <<>>

\* C7: a successful run over a src folder with one integration file, the file
\* javascript_1.js and no test case file issues one version-create call, with
\* JavaScriptTask 1 set to the script, no test-case-create call and one publish
\* call.
C7_OneVersionNoTestCase ==
    (pc = "done" /\ err = NoErr /\ OneIntegrationOneScript) =>
        /\ Count("createVersion") = 1
        /\ \A i \in Positions :
               IsVersion(calls[i]) =>
                   /\ "JavaScriptTask" \in DOMAIN calls[i].body.code
                   /\ <<"1">> \in DOMAIN calls[i].body.code["JavaScriptTask"]
                   /\ calls[i].body.code["JavaScriptTask"][<<"1">>]
                          = Inline(Content(scaffold, "src", JavascriptFolder, JavascriptOne).text)
        /\ Count("createTestCase") = 0
        /\ Count("publish") = 1

\* no file of the src folder is found to be an integration definition
NoIntegrationFile == \A x \in scaffold : x.kind = "src" => ~MatchJSON(x.name)

\* the integration stage has run: the run is over and no earlier stage ended it
IntegrationStageRan == pc = "done" /\ (err = NoErr \/ ErrStage(err) = "src")

\* C8, as claimed: without an integration definition file the integration
\* stage returns success, issues no call and writes no result artifact.
C8_NoIntegrationIsSuccess ==
    (IntegrationStageRan /\ NoIntegrationFile) =>
        /\ err = NoErr
        /\ \A i \in Positions : calls[i].kind # "src"
        /\ artifact = <<>>

\* C8, amended: ... returns success unless the overrides file is there and
\* cannot be read, and in every case issues no call and writes no artifact.
C8_NoIntegrationIsNoOp ==
    (IntegrationStageRan /\ NoIntegrationFile) =>
        /\ err # NoErr => (err.code = "read" /\ err.kind = "overrides")
        /\ \A i \in Positions : calls[i].kind # "src"
        /\ artifact = <<>>

\* a run with a pipeline whose integration stage found no integration file,
\* over a src folder that is not empty
C8_Witness ==
    /\ IntegrationStageRan /\ NoIntegrationFile /\ err = NoErr
    /\ flags.pipeline # ""
    /\ \E x \in scaffold : x.kind = "src"

\* the last element of a path that does not end in a slash
RECURSIVE LastSegment(_)
LastSegment(path) ==
    IF \E i \in 1..Len(path) : path[i] = "/"
    THEN LastSegment(Tail(path))
    ELSE path

\* C9: the version id is the last path segment of the name field of the
\* response; when the name is empty or missing the extraction fails, and no
\* test case is created and nothing is published.
C9_VersionIdOrFailure ==
    \A i \in Positions :
        (IsVersion(calls[i]) /\ calls[i].ok /\ calls[i].resp.valid) =>
            IF "name" \in DOMAIN calls[i].resp.fields /\ calls[i].resp.fields["name"] # <<>>
            THEN \A k \in Positions :
                     (IsTestCase(calls[k]) \/ IsPublish(calls[k])) =>
                         calls[k].args[2] = LastSegment(calls[i].resp.fields["name"])
            ELSE /\ err.code = "version not found"
                 /\ \A k \in Positions : ~IsTestCase(calls[k]) /\ ~IsPublish(calls[k])

\* C10: the probe for the channel of the file instance<sep>channel.json is
\* called with (channel, instance): the file's name is the second identifier,
\* the separator, the first identifier and the extension.
C10_ChannelProbeIsReversed ==
    \A i \in Positions :
        (calls[i].op = "probe" /\ calls[i].kind = "sfdcchannels") =>
            /\ Len(calls[i].args) = 2
            /\ calls[i].file
                   = calls[i].args[2]
                         \o (IF flags.useUnderscore THEN <<"_">> ELSE <<"_", "_">>)
                         \o calls[i].args[1] \o DotJson

\* a run that probed for the channel h of the instance i
C10_Witness ==
    \E i \in Positions :
        /\ calls[i].op = "probe" /\ calls[i].kind = "sfdcchannels"
        /\ calls[i].args = <<<<"h">>, <<"i">>>>

\* the kinds whose file names are split into two identifiers
SplitKinds == {"custom-connectors", "sfdcchannels"}

\* the number of times sep occurs in s, counted from the left without overlap
RECURSIVE Occurrences(_, _)
Occurrences(s, sep) ==
    IF Len(s) < Len(sep) THEN 0
    ELSE IF SubSeq(s, 1, Len(sep)) = sep
    THEN 1 + Occurrences(SubSeq(s, Len(sep) + 1, Len(s)), sep)
    ELSE Occurrences(Tail(s), sep)

\* the name without its extension
Stem(name) == IF LastIndex(name, ".") = 0 THEN name ELSE SubSeq(name, 1, LastIndex(name, ".") - 1)

\* the file's name, without its extension, splits into other than two segments
\* under the active separator
BadSplit(name) ==
    Occurrences(Stem(name), IF flags.useUnderscore THEN <<"_">> ELSE <<"_", "_">>) # 1

C11_BadNameNoCall ==
    \A i \in Positions : calls[i].kind \in SplitKinds => ~BadSplit(calls[i].file)

C11_BadNameGoesOn ==
    (/\ pc \in SplitKinds
     /\ pc' # pc \/ pos' # pos
     /\ BadSplit(WalkFiles(scaffold, pc)[pos + 1].name)) =>
        /\ calls' = calls
        /\ remote' = remote
        /\ err' = NoErr
        /\ pc' # "done"
        /\ IF pos + 1 < Len(WalkFiles(scaffold, pc))
           THEN pc' = pc /\ pos' = pos + 1
           ELSE Rank(pc') > Rank(pc) /\ pos' = 0

\* C11: a channel file or custom connector file whose name splits into other
\* than two segments under the active separator gets no probe and no create
\* call, and the run goes on without an error with the next file of the folder
\* or, after the last one, with a later stage.
C11_BadNameIsPassedOver == [](C11_BadNameNoCall) /\ [][C11_BadNameGoesOn]_vars

\* a run without an error that passed over a channel file whose name does not
\* split into two segments, and issued a call of a later stage
C11_Witness ==
    /\ pc = "done" /\ err = NoErr
    /\ \E x \in scaffold : x.kind = "sfdcchannels" /\ x.name # <<>> /\ BadSplit(x.name)
    /\ \A i \in Positions : calls[i].kind # "sfdcchannels"
    /\ \E i \in Positions : calls[i].kind = "src"

\* the publish call of the run succeeded
PublishSucceeded == \E k \in Positions : IsPublish(calls[k]) /\ calls[k].ok

\* C12: a result artifact, which records success, is written only when a
\* pipeline was given and only after the publish call succeeded: a run that
\* fails before or at the publish call and a run without a pipeline write no
\* result artifact.
C12_ArtifactOnlyAfterPublish ==
    /\ artifact # <<>> =>
           /\ artifact = <<"SUCCEEDED">>
           /\ flags.pipeline # ""
           /\ PublishSucceeded
           /\ pc = "done"
    /\ ~PublishSucceeded => artifact = <<>>
    /\ flags.pipeline = "" => artifact = <<>>

\* a run with a pipeline that published and wrote the result artifact
C12_Witness ==
    /\ artifact = <<"SUCCEEDED">>
    /\ flags.pipeline # ""
    /\ PublishSucceeded
    /\ err = NoErr

\* the stages that the specification of the command says a skip flag skips
ClaimedSkip(kind) ==
    \/ kind = "authconfigs" /\ flags.skipAuthconfigs
    \/ kind \in {"custom-connectors", "connectors"} /\ flags.skipConnectors

\* the kind's folder holds a file for the stage to visit; the integration
\* stage runs in any case
ToVisit(kind) ==
    \/ kind = "src"
    \/ \E x \in scaffold : x.kind = kind /\ x.name # <<>> /\ ~x.isDir

C13_SkippedNoCall ==
    \A i \in Positions : ~ClaimedSkip(calls[i].kind)

C13_OthersRun ==
    ((flags.skipAuthconfigs \/ flags.skipConnectors) /\ pc' \notin {pc, "done", "start", "args"}) =>
        LET from == IF pc \in {"start", "args"} THEN 0 ELSE Rank(pc)
        IN  /\ Rank(pc') > from
            /\ ~ClaimedSkip(pc')
            /\ \A n \in (from + 1)..(Rank(pc') - 1) :
                   ClaimedSkip(ClaimedOrder[n]) \/ ~ToVisit(ClaimedOrder[n])

\* C13: with skip-authconfigs no call is issued for an auth config, with
\* skip-connectors none for a custom connector or a connector; and with a skip
\* flag set the run still goes from stage to stage in the usual order, leaving
\* out only the skipped stages and the stages without a file to visit.
C13_SkipFlags == [](C13_SkippedNoCall) /\ [][C13_OthersRun]_vars

\* a run with skip-connectors over a folder with a connector file, in which a
\* later stage issued a call
C13_Witness ==
    /\ flags.skipConnectors
    /\ \E x \in scaffold : x.kind \in {"custom-connectors", "connectors"} /\ x.name # <<>>
    /\ \E i \in Positions : Rank(calls[i].kind) > Rank("connectors")
    /\ pc = "done"

\* the kind's folder is there and is a directory
FolderPresent(kind) ==
    \E x \in scaffold : x.kind = kind /\ (x.name # <<>> \/ x.isDir)

C14_AbsentNoCall ==
    /\ \A i \in Positions : FolderPresent(calls[i].kind)
    /\ err.kind \in {ClaimedOrder[n] : n \in 1..7} => FolderPresent(err.kind)

C14_AbsentGoesOn ==
    (pc' \notin {pc, "start", "args"} /\ pc # "src" /\ err' = NoErr) =>
        /\ pc' # "done"
        /\ pc' = "src" \/ FolderPresent(pc')
        /\ Rank(pc') > (IF pc \in {"start", "args"} THEN 0 ELSE Rank(pc))

ZoneFiles ==
    {x \in scaffold : x.kind = "zones" /\ x.name # <<>> /\ ~x.isDir /\ HasSuffix(x.name, DotJson)}

\* the positions of the zone-create calls issued for the file x
ZoneCreates(x) ==
    {j \in Positions : IsCreate(calls[j]) /\ calls[j].kind = "zones" /\ calls[j].file = x.name}

\* C15: for a zone file zones/<z>.json whose probe reported the zone absent,
\* the run issues exactly one zone-create call, right after the probe, with
\* the identifier <z> and the bytes of the file (which it could read: a file
\* that cannot be read ends the run with that error); when the probe found the
\* zone, no zone-create call is issued.
C15_AbsentZoneCreatedOnce ==
    \A x \in ZoneFiles :
        \A i \in Positions :
            (calls[i].op = "probe" /\ calls[i].kind = "zones" /\ calls[i].file = x.name) =>
                LET z == SubSeq(x.name, 1, Len(x.name) - Len(DotJson))
                IN  /\ calls[i].args = <<z>>
                    /\ calls[i].ok => ZoneCreates(x) = {}
                    /\ ~calls[i].ok =>
                           \/ /\ err = Error("read", "zones", x.name)
                              /\ i = Len(calls)
                           \/ /\ ZoneCreates(x) = {i + 1}
                              /\ calls[i + 1].args = <<z>>
                              /\ calls[i + 1].body.bytes = x.content

\* a run that found the zone z1 absent and issued the zone-create call with z1
\* and the bytes of zones/z1.json
C15_Witness ==
    \E i \in Positions :
        /\ calls[i].op = "probe" /\ calls[i].kind = "zones" /\ ~calls[i].ok
        /\ calls[i].file = <<"z", "1">> \o DotJson
        /\ i < Len(calls)
        /\ IsCreate(calls[i + 1]) /\ calls[i + 1].args = <<<<"z", "1">>>>
        /\ calls[i + 1].body.bytes = Opaque("z")

\* the text with every newline replaced by backslash, n, character by character
RECURSIVE Expand(_)
Expand(text) ==
    IF text = <<>> THEN <<>>
    ELSE (IF Head(text) = NewLine THEN <<"\\", "n">> ELSE <<Head(text)>>) \o Expand(Tail(text))

\* the code files of the scaffold folder
CodeFiles == {x \in scaffold : x.kind = "src" /\ x.sub \in {JavascriptFolder, DatatransformerFolder}}

\* the text that the version-create call c carries for the code file x
Inlined(c, x) ==
    c.body.code[IF x.sub = JavascriptFolder THEN "JavaScriptTask" ELSE "JsonnetMapperTask"][<<"1">>]

\* C16: the text a version-create call carries for a script or transform file
\* is the file's text with every newline replaced by the two characters
\* backslash, n and nothing else changed: it holds no newline, and the text of
\* a file without a newline is carried unchanged.
C16_InlineReplacesNewlines ==
    \A i \in Positions :
        IsVersion(calls[i]) =>
            \A x \in CodeFiles :
                /\ Inlined(calls[i], x) = Expand(x.content.text)
                /\ \A k \in 1..Len(Inlined(calls[i], x)) : Inlined(calls[i], x)[k] # NewLine
                /\ (\A k \in 1..Len(x.content.text) : x.content.text[k] # NewLine)
                       => Inlined(calls[i], x) = x.content.text

\* a version-create call that carries a transform file of two newlines around
\* a backslash, inlined
C16_Witness ==
    \E i \in Positions :
        /\ IsVersion(calls[i])
        /\ \E x \in CodeFiles :
               /\ x.sub = DatatransformerFolder
               /\ x.content.text = <<NewLine, "\\", NewLine>>
               /\ Inlined(calls[i], x) = <<"\\", "n", "\\", "\\", "n">>

\* the operations that look a resource up, create one, or publish a version
ReadsAndCreates == {"probe", "create", "createVersion", "createTestCase", "publish"}

C17_NoUpdateNoDelete ==
    \A i \in Positions : calls[i].op \in ReadsAndCreates

C17_CreatedStays ==
    \A i \in Positions :
        (calls[i].op \in {"create", "createVersion"} /\ calls[i].ok) =>
            <<calls[i].kind, calls[i].key>> \in remote

C17_RemoteGrows == remote \subseteq remote'

\* C17: a run issues no update and no delete call: its calls are existence
\* probes, create calls and the publish call; and no step of a run, a failing
\* one included, takes a resource away: what an earlier stage created still
\* exists when a later stage has failed.
C17_NoUpdateNoRollback ==
    [](C17_NoUpdateNoDelete /\ C17_CreatedStays) /\ [][C17_RemoteGrows]_vars

\* a run that a stage ended with an error after an earlier stage had created a
\* resource, which still exists
C17_Witness ==
    /\ pc = "done" /\ err # NoErr /\ err.kind # ""
    /\ \E i \in Positions :
           /\ IsCreate(calls[i]) /\ calls[i].ok
           /\ Rank(calls[i].kind) < Rank(ErrStage(err))
           /\ <<calls[i].kind, calls[i].key>> \in remote \ remoteAtStart

\* the two shapes of flags that the command is said to accept
TwoShapes ==
    \/ /\ flags.folder # ""
       /\ flags.pipeline = "" /\ flags.release = "" /\ flags.outputGCSPath = ""
    \/ /\ flags.folder = ""
       /\ flags.pipeline # "" /\ flags.release # "" /\ flags.outputGCSPath # ""

\* the errors of Args about the shape of the flags
ShapeErrors ==
    {"atleast one of folder or pipeline, release and outputGCSPath",
     "both folder and pipeline, release and outputGCSPath",
     "release, pipeline and outputGCSPath must be set"}

\* nothing was touched: no call was issued, no resource created, no artifact
\* written
Untouched == calls = <<>> /\ remote = remoteAtStart /\ artifact = <<>>

C18_CheckedFirst ==
    /\ pc = "args" => Untouched
    /\ ~TwoShapes => Untouched
    /\ err.code \in ShapeErrors => pc = "done" /\ ~TwoShapes

C18_Verdict ==
    (pc = "args" /\ pc' # "args") =>
        IF TwoShapes
        THEN \/ pc' = "start" /\ err' = NoErr
             \/ pc' = "done" /\ err'.code \in {"region", "project"}
        ELSE /\ pc' = "done"
             /\ err'.code \in ShapeErrors \cup {"region"}

\* C18: the flags are checked before anything is touched, and are accepted in
\* two shapes only: the folder without pipeline, release and output path, or
\* no folder with all three of them. Flags of any other shape are rejected with
\* an error and the run touches nothing; flags of the two shapes are accepted
\* (unless the region or the project cannot be set).
C18_FlagsValidatedFirst == [](C18_CheckedFirst) /\ [][C18_Verdict]_vars

\* the command was given a folder that is not empty together with a pipeline,
\* and was rejected
C18_Witness ==
    /\ pc = "done"
    /\ err.code = "both folder and pipeline, release and outputGCSPath"
    /\ flags.pipeline # "" /\ flags.release = ""
    /\ scaffold # {}
    /\ Untouched

\* the call at position j follows a probe of the run for the same identifier
\* of the same kind that reported the resource absent
ProbedAbsent(j) ==
    \E i \in 1..(j - 1) :
        /\ calls[i].op = "probe" /\ ~calls[i].ok
        /\ calls[i].kind = calls[j].kind
        /\ calls[i].key = calls[j].key

JsonKinds ==
    {"authconfigs", "endpoints", "zones", "custom-connectors", "connectors",
     "sfdcinstances", "sfdcchannels"}

\* C20: the probes and the create calls of the seven kinds of resource files
\* are issued only for files of the kind's folder whose base name matches the
\* JSON file pattern: a file that does not match it, in the endpoints and zones
\* folders as in the others, triggers no remote call.
C20_OnlyJsonFilesCalled ==
    \A i \in Positions :
        calls[i].kind \in JsonKinds =>
            /\ Contains(calls[i].file, DotJson)
            /\ \E x \in scaffold :
                   x.kind = calls[i].kind /\ x.name = calls[i].file /\ ~x.isDir

\* the code files that processCodeFolders finds in the two code folders
CodeFound ==
    NamesMatching(WalkUnder(scaffold, "src", JavascriptFolder), "javascript")
        \o NamesMatching(WalkUnder(scaffold, "src", DatatransformerFolder), "jsonnet")

\* C21: the integration body is patched by code inlining only when a code file
\* was found: with no code file in either code folder the body of the
\* version-create call is the integration file's content with no code map put
\* into it, and the run cannot fail in the patch step.
C21_PatchedOnlyWithCode ==
    /\ \A i \in Positions :
           IsVersion(calls[i]) /\ CodeFound = <<>> => calls[i].body.code = NoCode
    /\ err.code = "setcode" => CodeFound # <<>>

\* C21, the part of it that holds: the code map a version-create call carries
\* has both buckets
C21_BothBuckets ==
    \A i \in Positions :
        IsVersion(calls[i]) =>
            DOMAIN calls[i].body.code = {"JavaScriptTask", "JsonnetMapperTask"}

\* the names of the code files of the scaffold folder
CodeFileNames == {x.name : x \in CodeFiles}

\* C22: at most one version is created per run, and a code file is never
\* taken for the integration definition nor for a test case: no version and
\* no test case is created from a code file, and the run never fails on a
\* code file looked for among the files of the src folder itself.
C22_CodeFileNeverDefinition ==
    /\ Count("createVersion") <= 1
    /\ \A i \in Positions :
           calls[i].op \in {"createVersion", "createTestCase"}
               => calls[i].file \notin CodeFileNames
    /\ err.file \notin CodeFileNames

\* C22, the part of it that holds: at most one version is created per run
C22_AtMostOneVersion == Count("createVersion") <= 1

\* the endpoint files of the scaffold folder, and the calls issued for one
EndpointsOf == {x \in scaffold : x.kind = "endpoints" /\ ~x.isDir /\ x.name # <<>>}

CallsFor(x, op) == {i \in Positions : calls[i].kind = x.kind /\ calls[i].file = x.name
                                      /\ calls[i].op = op}

\* the probe for the endpoint file x reported absence
EndpointAbsent(x) == \E i \in CallsFor(x, "probe") : ~calls[i].ok

\* the serviceAttachment field of x's body is there and not empty
HasAttachment(x) ==
    /\ x.content.valid
    /\ "serviceAttachment" \in DOMAIN x.content.fields
    /\ x.content.fields["serviceAttachment"] # <<>>

\* C23: an endpoint-create call receives the identifier taken from the file's
\* name and the serviceAttachment value of the file's own body, and follows a
\* probe that reported absence; when the probe reported absence and the field
\* is missing or empty, no endpoint-create call is issued for the file and the
\* run ends with an error at that file.
C23_EndpointCreate ==
    \A x \in EndpointsOf :
        /\ \A i \in CallsFor(x, "create") :
               /\ EndpointAbsent(x)
               /\ HasAttachment(x)
               /\ calls[i].args = <<getFilenameWithoutExtension(x.name),
                                    x.content.fields["serviceAttachment"]>>
        /\ EndpointAbsent(x) /\ ~HasAttachment(x) /\ pc \notin {"endpoints"}
               => /\ CallsFor(x, "create") = {}
                  /\ err # NoErr
                  /\ err.kind = "endpoints" /\ err.file = x.name
                  /\ pc = "done"
        /\ EndpointAbsent(x) /\ HasAttachment(x) /\ err = NoErr
               => CallsFor(x, "create") # {}

\* a run that failed on an endpoint file without the field, after a probe that
\* found nothing, and issued no create call
C23_Witness ==
    /\ pc = "done"
    /\ err.code = "serviceAttachment not found"
    /\ \E x \in EndpointsOf :
           /\ EndpointAbsent(x)
           /\ "serviceAttachment" \notin DOMAIN x.content.fields
           /\ CallsFor(x, "create") = {}

\* the kinds of resource files
ResourceKinds ==
    {"authconfigs", "endpoints", "zones", "custom-connectors", "connectors",
     "sfdcinstances", "sfdcchannels"}

\* the files the walks of the resource folders come to
ResourceFiles ==
    UNION {{WalkFiles(scaffold, k)[n] : n \in 1..Len(WalkFiles(scaffold, k))} :
              k \in ResourceKinds}

\* the calls of the run that failed; a probe that finds nothing has not failed
Failed == {i \in Positions : calls[i].op # "probe" /\ ~calls[i].ok}

\* C24: nothing is retried and the calls are issued one after the other.
\* Within one run each resource file leads to at most one probe and at most one
\* create call, at most one version-create and one publish call are issued,
\* and a call that failed is not issued again; the log of the run only grows
\* at its end, by calls that have returned, until the next run starts.
C24_NoRetrySequential ==
    /\ [](/\ \A x \in ResourceFiles :
                /\ Cardinality(CallsFor(x, "probe")) <= 1
                /\ Cardinality(CallsFor(x, "create")) <= 1
          /\ Count("createVersion") <= 1
          /\ Count("publish") <= 1
          /\ \A i \in Failed : \A j \in Positions :
                  j > i => ~(/\ calls[j].op = calls[i].op
                             /\ calls[j].kind = calls[i].kind
                             /\ calls[j].key = calls[i].key))
    /\ [][\/ calls' = <<>>
          \/ /\ Len(calls') >= Len(calls)
             /\ SubSeq(calls', 1, Len(calls)) = calls]_vars

\* a run that ended after a create call for a resource file failed: the call
\* was issued once
C24_Witness ==
    /\ pc = "done"
    /\ \E x \in ResourceFiles :
           /\ Cardinality(CallsFor(x, "probe")) = 1
           /\ Cardinality(CallsFor(x, "create")) = 1
           /\ \E i \in CallsFor(x, "create") : i \in Failed

\* the auth config files of the scaffold folder that the walk has come to
AuthConfigsVisited ==
    {x \in scaffold : x.kind = "authconfigs" /\ ~x.isDir /\ CallsFor(x, "probe") # {}}

\* the lookup for the auth config file x yielded an empty identifier
LookupEmpty(x) == \E i \in CallsFor(x, "probe") : ~calls[i].ok

\* C25: an auth-config create call is issued for a file exactly when the
\* lookup by name yielded an empty identifier (and the file could be read); a
\* lookup that fails yields one, whether or not the auth config exists, and the
\* create call carries the file's raw content and nothing else.
C25_CreateIffLookupEmpty ==
    \A x \in AuthConfigsVisited :
        /\ <<x.kind, <<getFilenameWithoutExtension(x.name)>>>> \in failing => LookupEmpty(x)
        /\ CallsFor(x, "create") # {} => LookupEmpty(x)
        /\ LookupEmpty(x) /\ CallsFor(x, "create") = {}
               => err = Error("read", x.kind, x.name)
        /\ \A i \in CallsFor(x, "create") :
               /\ calls[i].body = Body(x.content, NoCode, NoBytes)
               /\ calls[i].args = <<>>

\* a run that ended after it created an auth config that exists remotely,
\* because its lookup failed
C25_Witness ==
    /\ pc = "done"
    /\ \E x \in AuthConfigsVisited :
           /\ <<x.kind, <<getFilenameWithoutExtension(x.name)>>>> \in failing \cap remoteAtStart
           /\ \E i \in CallsFor(x, "create") :
                  calls[i].ok /\ calls[i].body.bytes = x.content

----------------------------------------------------------------------------
(* The execute command of test cases *)

\* the flags of ExecuteTestCaseCmd that Args and RunE read, each given or not
ExecuteFlags ==
    [testCaseID : {"", "c"}, userLabel : {"", "u"}, snapshot : {"", "s"},
     inputFile : {"", "f"}, inputFolder : {"", "d"}]

\* an error of the execute command
ExecuteErr(code) == Error(code, "testcase", <<>>)

\* ExecuteArgsChecked, had the test case id been allowed with input-folder
ExecuteArgsCheckedAnyId(fl, o) ==
    IF o = "region" THEN ExecuteErr("region")
    ELSE IF o = "validate" THEN ExecuteErr("validate")
    ELSE IF fl.inputFile # "" /\ fl.testCaseID = ""
    THEN ExecuteErr("test case id must be set with input-file")
    ELSE IF fl.inputFile = "" /\ fl.inputFolder = ""
    THEN ExecuteErr("at least one of input-file or input-folder must be passed")
    ELSE IF fl.inputFile # "" /\ fl.inputFolder # ""
    THEN ExecuteErr("only one of input-file or input-folder can be passed")
    ELSE IF o = "project" THEN ExecuteErr("project")
    ELSE NoErr

\* ExecuteTestCaseCmd.Args: the error it returns; o is what the environment
\* makes fail: nothing, SetRegion, validate or SetProjectID
ExecuteArgsChecked(fl, o) ==
    IF o = "region" THEN ExecuteErr("region")
    ELSE IF o = "validate" THEN ExecuteErr("validate")
    ELSE IF fl.inputFile # "" /\ fl.testCaseID = ""
    THEN ExecuteErr("test case id must be set with input-file")
    ELSE IF fl.inputFile = "" /\ fl.inputFolder = ""
    THEN ExecuteErr("at least one of input-file or input-folder must be passed")
    ELSE IF fl.inputFile # "" /\ fl.inputFolder # ""
    THEN ExecuteErr("only one of input-file or input-folder can be passed")
    ELSE IF fl.inputFolder # "" /\ fl.testCaseID # ""
    THEN ExecuteErr("test case id cannot be set with input-folder")
    ELSE IF o = "project" THEN ExecuteErr("project")
    ELSE NoErr

\* what the environment does to RunE: whether the integration is fetched,
\* whether getIntegrationVersion finds a version, what fails about the input
\* file (os.Stat, os.ReadFile, the execution call) and whether the execution of
\* the folder's test cases succeeds
ExecuteOutcomes ==
    [get : BOOLEAN, version : BOOLEAN, file : {"ok", "nostat", "noread", "noexec"},
     all : BOOLEAN]

\* a remote call of the execute command
ExecuteCall(op, fl, ok) ==
    Call(op, "testcase", <<>>, <<fl.testCaseID>>, <<>>, NoBody, ok, NoBytes)

\* RunE, the fetch of the integration by snapshot or by user label
GetIntegration(fl, o) ==
    IF fl.snapshot # "" THEN <<ExecuteCall("getBySnapshot", fl, o.get)>>
    ELSE IF fl.userLabel # "" THEN <<ExecuteCall("getByUserlabel", fl, o.get)>>
    ELSE <<>>

\* ExecuteTestCaseCmd.RunE: the calls it issues and the error it returns. The
\* error of the fetch is overwritten by that of getIntegrationVersion. In the
\* input-file block `content, err := os.ReadFile(inputFile)` declares an err of
\* the block, which the execution call assigns; the err returned at the end
\* is the function's, nil since getIntegrationVersion.
ExecuteRunE(fl, o) ==
    IF ~o.version THEN Done(GetIntegration(fl, o), ExecuteErr("version"))
    ELSE IF fl.inputFile # "" /\ o.file = "nostat"
    THEN Done(GetIntegration(fl, o), ExecuteErr("stat"))
    ELSE IF fl.inputFile # "" /\ o.file = "noread"
    THEN Done(GetIntegration(fl, o), ExecuteErr("read"))
    ELSE LET execute == IF fl.inputFile # ""
                        THEN <<ExecuteCall("executeTestCase", fl, o.file # "noexec")>>
                        ELSE <<>>
         IN  IF fl.inputFolder # ""
             THEN Done(GetIntegration(fl, o) \o execute
                           \o <<ExecuteCall("executeAllTestCases", fl, o.all)>>,
                       IF o.all THEN NoErr ELSE ExecuteErr("remote"))
             ELSE Done(GetIntegration(fl, o) \o execute, NoErr)

ExecuteInit ==
    /\ scaffold = {}
    /\ flags \in ExecuteFlags
    /\ remote = {}
    /\ remoteAtStart = remote
    /\ failing = {}
    /\ pc = "execute-args"
    /\ pos = 0
    /\ calls = <<>>
    /\ err = NoErr
    /\ artifact = <<>>
    /\ applied = {}

\* ExecuteTestCaseCmd.Args, which the command runs before RunE
ExecuteArgs ==
    /\ pc = "execute-args"
    /\ \E o \in {"ok", "region", "validate", "project"} :
        /\ err' = ExecuteArgsChecked(flags, o)
        /\ pc' = IF ExecuteArgsChecked(flags, o) = NoErr THEN "execute" ELSE "rejected"
    /\ UNCHANGED <<scaffold, flags, remote, pos, calls, artifact, applied, remoteAtStart, failing>>

\* ExecuteTestCaseCmd.RunE
Execute ==
    /\ pc = "execute"
    /\ \E o \in ExecuteOutcomes :
        /\ calls' = calls \o ExecuteRunE(flags, o).calls
        /\ err' = ExecuteRunE(flags, o).ret
    /\ pc' = "executed"
    /\ UNCHANGED <<scaffold, flags, remote, pos, artifact, applied, remoteAtStart, failing>>

ExecuteNext ==
    \/ ExecuteArgs
    \/ Execute

ExecuteSpec == ExecuteInit /\ [][ExecuteNext]_vars

\* the combinations of input-file, input-folder and test-case-id that are
\* claimed to be accepted
Accepted(fl) ==
    /\ (fl.inputFile # "") # (fl.inputFolder # "")
    /\ fl.inputFile # "" => fl.testCaseID # ""
    /\ fl.inputFolder # "" => fl.testCaseID = ""

\* C26: once SetRegion and validate have passed, Args accepts exactly the
\* combinations with one and only one of input-file and input-folder, a
\* test-case-id with input-file and none with input-folder: RunE is run only
\* with such flags, such flags are rejected only by SetRegion, validate or
\* SetProjectID, and a rejected command has issued no remote call.
C26_AcceptsExactly ==
    /\ pc \in {"execute", "executed"} => Accepted(flags)
    /\ pc = "rejected" /\ Accepted(flags) => err.code \in {"region", "validate", "project"}
    /\ pc = "rejected" => err # NoErr /\ calls = <<>>
    /\ pc = "rejected" /\ ~Accepted(flags) => err.code # "project"

\* a command rejected because a test case id came with input-folder
C26_Witness ==
    /\ pc = "rejected"
    /\ flags.inputFolder # "" /\ flags.inputFile = "" /\ flags.testCaseID # ""
    /\ err.code = "test case id cannot be set with input-folder"
    /\ calls = <<>>

\* the execution calls of the command that failed
ExecutionFailed ==
    {i \in Positions : calls[i].op = "executeTestCase" /\ ~calls[i].ok}

\* C27: run with input-file, the command returns a non-nil error when the
\* remote execution of the test case failed, and nil only when it succeeded.
C27_ExecutionFailureReturned ==
    pc = "executed" /\ flags.inputFile # ""
        => /\ ExecutionFailed # {} => err # NoErr
           /\ err = NoErr => \E i \in Positions :
                                 calls[i].op = "executeTestCase" /\ calls[i].ok

====
